---- MODULE Spec2Model ----
(***************************************************************************)
(* Model of the AICalc backend (calc-be): the primary endpoint `run` of    *)
(* apps/calculator/route.py and the response-normalisation pipeline of     *)
(* apps/calculator/utils.py (_extract_text_from_gemini_response and        *)
(* analyze_image).                                                         *)
(*                                                                         *)
(* Texts are sequences of lexical tokens.  Every token stands for a fixed  *)
(* piece of concrete text:                                                 *)
(*   "F"   ```                      "n"  newline        "s"  space         *)
(*   "python","json","javascript","js"   the words themselves              *)
(*   "w"   a prose word             "["  "]"  ","       themselves         *)
(*   "N"   -1                                                              *)
(*   "Db"  {"expr": "x", "result": 2}                                      *)
(*   "Dp"  {'expr': 'y', 'result': 5, 'assign': True}                      *)
(*   "Dj"  {"expr": "z", "result": null, "assign": "yes"}                  *)
(*   "Dx"  {oops}                                                          *)
(* Python values are tagged records [t, d, items]; the values stored in a  *)
(* dict are written as the repr of the Python value ("'x'", "2", "True").  *)
(* ast.literal_eval is modelled as CPython 3.11 implements it.             *)
(***************************************************************************)
EXTENDS Integers, Sequences, FiniteSets, TLC

\* ------------------------------------------------------------------ bounds
MaxLen == 3        \* longest free-form response text, in tokens
MaxElems == 2      \* most elements of a generated list literal
MaxParts == 2      \* most parts of a generated parts sequence
MaxCands == 2      \* most candidates of a generated response

\* ------------------------------------------------------------------ texts
LangTags == {"python", "json", "javascript", "js"}
Whitespace == {"s", "n"}
DictTokens == {"Db", "Dp", "Dj", "Dx"}
FreeTokens == {"F", "n", "s", "python", "w", "[", "]", ",", "N"} \cup DictTokens

RECURSIVE SeqsUpTo(_, _)
SeqsUpTo(S, n) ==
    IF n = 0 THEN {<<>>}
    ELSE LET shorter == SeqsUpTo(S, n - 1)
         IN  shorter \cup {Append(q, x) : q \in shorter, x \in S}

\* ----------------------------------------------------------------- values
EmptyDict == [k \in {} |-> ""]
IntVal == [t |-> "int", d |-> EmptyDict, items |-> <<>>]
DictVal(d) == [t |-> "dict", d |-> d, items |-> <<>>]
ListVal(items) == [t |-> "list", d |-> EmptyDict, items |-> items]
TupleVal(items) == [t |-> "tuple", d |-> EmptyDict, items |-> items]

\* The dict each object-literal token denotes.
DictOf(tok) ==
    CASE tok = "Db" -> [k \in {"expr", "result"} |->
                          IF k = "expr" THEN "'x'" ELSE "2"]
      [] tok = "Dp" -> [k \in {"expr", "result", "assign"} |->
                          IF k = "expr" THEN "'y'"
                          ELSE IF k = "result" THEN "5" ELSE "True"]
      [] tok = "Dj" -> [k \in {"expr", "result", "assign"} |->
                          IF k = "expr" THEN "'z'"
                          ELSE IF k = "result" THEN "None" ELSE "'yes'"]

\* Object literals each grammar accepts: null is JSON only, single quotes
\* and True are Python only, {oops} is neither.
JsonDicts == {"Db", "Dj"}
PyDicts == {"Db", "Dp"}

Success(v) == [ok |-> TRUE, val |-> v]
Failure == [ok |-> FALSE, val |-> IntVal]

\* ------------------------------------------------------------- str.strip()
RECURSIVE LStrip(_, _)
LStrip(t, ws) ==
    IF t # <<>> /\ Head(t) \in ws THEN LStrip(Tail(t), ws) ELSE t

RECURSIVE RStrip(_, _)
RStrip(t, ws) ==
    IF t # <<>> /\ t[Len(t)] \in ws THEN RStrip(SubSeq(t, 1, Len(t) - 1), ws)
    ELSE t

Strip(t) == RStrip(LStrip(t, Whitespace), Whitespace)

\* ---------------------------------------------- the cleaning of the text
IndexOfFirst(t, tok) ==
    IF \E i \in 1..Len(t) : t[i] = tok
    THEN CHOOSE i \in 1..Len(t) : t[i] = tok /\ \A j \in 1..(i - 1) : t[j] # tok
    ELSE 0

IndexOfLast(t, tok) ==
    IF \E i \in 1..Len(t) : t[i] = tok
    THEN CHOOSE i \in 1..Len(t) :
             t[i] = tok /\ \A j \in (i + 1)..Len(t) : t[j] # tok
    ELSE 0

\* lines = text.split('\n'): lines[0] and '\n'.join(lines[1:]).
FirstLine(t) ==
    IF IndexOfFirst(t, "n") = 0 THEN t ELSE SubSeq(t, 1, IndexOfFirst(t, "n") - 1)

AfterFirstLine(t) ==
    IF IndexOfFirst(t, "n") = 0 THEN <<>>
    ELSE SubSeq(t, IndexOfFirst(t, "n") + 1, Len(t))

\* lines[0].strip() in ['python', 'json', 'javascript', 'js']
IsLangTagLine(line) ==
    \E tag \in LangTags : Strip(line) = <<tag>>

\* The language tag line is left in the cleaned text.
DropLangTag_Kept(inner) == inner

DropLangTag(inner) ==
    IF IsLangTagLine(FirstLine(inner)) THEN Strip(AfterFirstLine(inner)) ELSE inner

\* utils.py lines 161-176.
Clean(text) ==
    LET stripped == Strip(text)
        first == IndexOfFirst(stripped, "F")
        last == IndexOfLast(stripped, "F")
    IN  IF stripped # <<>> /\ Head(stripped) = "F"
        THEN IF first # 0 /\ last # 0 /\ first # last
             THEN DropLangTag(Strip(SubSeq(stripped, first + 1, last - 1)))
             ELSE stripped
        ELSE stripped

\* ------------------------------------------------------------ the parsers
RECURSIVE SkipOver(_, _, _)
\* The first position from i on whose token is not in ws (Len(t) + 1 if none).
SkipOver(t, i, ws) ==
    IF i <= Len(t) /\ t[i] \in ws THEN SkipOver(t, i + 1, ws) ELSE i

NoParse == [ok |-> FALSE, val |-> IntVal, next |-> 0]
Parsed(v, next) == [ok |-> TRUE, val |-> v, next |-> next]

RECURSIVE ParseValue(_, _, _, _)
RECURSIVE ParseItems(_, _, _, _, _)
\* One value starting at position i.  dicts: the object literals the grammar
\* accepts; trailing: whether a comma may precede the closing bracket.
ParseValue(t, i, dicts, trailing) ==
    IF i > Len(t) THEN NoParse
    ELSE IF t[i] = "N" THEN Parsed(IntVal, i + 1)
    ELSE IF t[i] \in dicts THEN Parsed(DictVal(DictOf(t[i])), i + 1)
    ELSE IF t[i] = "[" THEN
        ParseItems(t, SkipOver(t, i + 1, Whitespace), dicts, trailing, <<>>)
    ELSE NoParse

\* The rest of a list display, at the start of an element or at the bracket.
ParseItems(t, i, dicts, trailing, acc) ==
    IF i > Len(t) THEN NoParse
    ELSE IF t[i] = "]" THEN
        IF acc = <<>> \/ trailing THEN Parsed(ListVal(acc), i + 1) ELSE NoParse
    ELSE LET r == ParseValue(t, i, dicts, trailing)
             j == SkipOver(t, r.next, Whitespace)
         IN  IF ~r.ok \/ j > Len(t) THEN NoParse
             ELSE IF t[j] = "," THEN
                 ParseItems(t, SkipOver(t, j + 1, Whitespace), dicts, trailing,
                            Append(acc, r.val))
             ELSE IF t[j] = "]" THEN Parsed(ListVal(Append(acc, r.val)), j + 1)
             ELSE NoParse

\* json.loads: one value, whitespace allowed around it.
JsonLoads(text) ==
    LET r == ParseValue(text, SkipOver(text, 1, Whitespace), JsonDicts, FALSE)
    IN  IF r.ok /\ SkipOver(text, r.next, Whitespace) > Len(text)
        THEN Success(r.val) ELSE Failure

RECURSIVE SkipBlankLines(_, _)
\* Blank lines (spaces, then a newline) before the expression are ignored.
SkipBlankLines(t, i) ==
    LET j == SkipOver(t, i, {"s"})
    IN  IF j <= Len(t) /\ t[j] = "n" THEN SkipBlankLines(t, j + 1) ELSE i

RECURSIVE OnlyBlankLines(_, _)
\* From i on there are only blank lines, each ended by its newline.
OnlyBlankLines(t, i) ==
    LET j == SkipOver(t, i, {"s"})
    IN  IF i > Len(t) THEN TRUE
        ELSE j <= Len(t) /\ t[j] = "n" /\ OnlyBlankLines(t, j + 1)

RECURSIVE ParseTestlist(_, _, _)
\* The top-level expression of eval mode: value ("," value)* [","], on one
\* logical line.  With a comma it is a tuple.
ParseTestlist(t, i, acc) ==
    LET r == ParseValue(t, i, PyDicts, TRUE)
        j == SkipOver(t, r.next, {"s"})
        k == SkipOver(t, j + 1, {"s"})
    IN  IF ~r.ok THEN NoParse
        ELSE IF j > Len(t) \/ t[j] = "n" THEN
            IF acc = <<>> THEN Parsed(r.val, j)
            ELSE Parsed(TupleVal(Append(acc, r.val)), j)
        ELSE IF t[j] # "," THEN NoParse
        ELSE IF k > Len(t) \/ t[k] = "n" THEN
            Parsed(TupleVal(Append(acc, r.val)), k)
        ELSE ParseTestlist(t, k, Append(acc, r.val))

\* ast.literal_eval: lstrip(" \t"), then the expression, then blank lines.
LiteralEval(text) ==
    LET start == SkipBlankLines(text, SkipOver(text, 1, {"s"}))
        r == ParseTestlist(text, start, <<>>)
    IN  IF r.ok /\ (r.next > Len(text) \/ OnlyBlankLines(text, r.next + 1))
        THEN Success(r.val) ELSE Failure

\* re.findall(r'\[\s*\{[^}]*\}\s*\]', text): where a match starts and ends.
MatchEnd(t, i) ==
    LET j == SkipOver(t, i + 1, Whitespace)
        k == SkipOver(t, j + 1, Whitespace)
    IN  IF i <= Len(t) /\ t[i] = "[" /\ j <= Len(t) /\ t[j] \in DictTokens
           /\ k <= Len(t) /\ t[k] = "]"
        THEN k ELSE 0

HasMatch(t) == \E i \in 1..Len(t) : MatchEnd(t, i) # 0

\* The last match is taken, not the first.
FirstMatch_Last(t) ==
    LET i == CHOOSE i \in 1..Len(t) :
                 MatchEnd(t, i) # 0 /\ \A j \in (i + 1)..Len(t) : MatchEnd(t, j) = 0
    IN  SubSeq(t, i, MatchEnd(t, i))

\* matches[0]
FirstMatch(t) ==
    LET i == CHOOSE i \in 1..Len(t) :
                 MatchEnd(t, i) # 0 /\ \A j \in 1..(i - 1) : MatchEnd(t, j) = 0
    IN  SubSeq(t, i, MatchEnd(t, i))

\* ------------------------------------------------- the model's response
\* What probing an attribute gives: it is absent (hasattr is false), reading
\* it raises something other than AttributeError, or it has a value.
Absent == [k |-> "absent", v |-> <<>>]
Raises == [k |-> "raises", v |-> <<>>]
Val(v) == [k |-> "val", v |-> v]

\* str(type(response)), and the text of str(response) for an object that
\* prints as something else.
TypeRepr == <<"T">>
ObjectRepr == <<"w">>

NoText == [k |-> "none", v |-> <<>>]
Raised == [k |-> "raise", v |-> <<>>]
Text(t) == [k |-> "text", v |-> t]

RECURSIVE JoinTexts(_)
\* "".join(part.text for part in parts if hasattr(part, 'text') and part.text)
JoinTexts(parts) ==
    IF parts = <<>> THEN <<>>
    ELSE IF Head(parts).k = "val" THEN Head(parts).v \o JoinTexts(Tail(parts))
    ELSE JoinTexts(Tail(parts))

\* One parts sequence (lines 19-22, 29-31, 36-43).
FromParts(parts) ==
    IF parts.k = "raises" THEN Raised
    ELSE IF parts.k = "absent" THEN NoText
    ELSE IF \E i \in 1..Len(parts.v) : parts.v[i].k = "raises" THEN Raised
    ELSE IF JoinTexts(parts.v) # <<>> THEN Text(JoinTexts(parts.v))
    ELSE NoText

\* content.parts of an object that may have content (lines 26-31, 33-43).
FromContent(content) ==
    IF content.k = "raises" THEN Raised
    ELSE IF content.k = "absent" THEN NoText
    ELSE FromParts(content.v)

RECURSIVE FromCandidates(_)
\* for candidate in response.candidates (lines 25-31): the first candidate
\* whose parts give text; a raising probe ends the loop.
FromCandidates(cands) ==
    IF cands = <<>> THEN NoText
    ELSE IF FromContent(Head(cands)).k = "none" THEN FromCandidates(Tail(cands))
    ELSE FromContent(Head(cands))

\* The probes in the order of the code; every one of them is inside the one
\* try block, so the first raising probe ends the extraction with "".
ProbeOrder(r) ==
    << IF r.text.k = "raises" THEN Raised
       ELSE IF r.text.k = "val" /\ r.text.v # <<>> THEN Text(r.text.v)
       ELSE NoText,
       FromParts(r.parts),
       IF r.candidates.k = "raises" THEN Raised
       ELSE IF r.candidates.k = "absent" THEN NoText
       ELSE FromCandidates(r.candidates.v),
       FromContent(r.content),
       IF r.repr # <<>> /\ r.repr # TypeRepr THEN Text(r.repr) ELSE NoText >>

RECURSIVE FirstOutcome(_)
FirstOutcome(probes) ==
    IF probes = <<>> THEN <<>>
    ELSE IF Head(probes).k = "none" THEN FirstOutcome(Tail(probes))
    ELSE Head(probes).v

\* _extract_text_from_gemini_response
ExtractText(r) == FirstOutcome(ProbeOrder(r))

\* --------------------------------------------------------- normalisation
\* answer['assign'] = False when the key is missing (lines 256-258); an
\* element that is no dict is only reported (line 260).
\* assign is set to False on every dict, present or not.
WithAssign_Overwrites(v) ==
    IF v.t = "dict"
    THEN DictVal([k \in DOMAIN v.d \cup {"assign"} |->
                     IF k = "assign" THEN "False" ELSE v.d[k]])
    ELSE v

WithAssign(v) ==
    IF v.t = "dict" /\ "assign" \notin DOMAIN v.d
    THEN DictVal([k \in DOMAIN v.d \cup {"assign"} |->
                     IF k = "assign" THEN "False" ELSE v.d[k]])
    ELSE v

\* if not isinstance(answers, list): answers = [answers]  (lines 251-252)
EnsureList(v) == IF v.t = "list" THEN v.items ELSE <<v>>

\* Lines 250-262: what analyze_image returns for a parsed value.
NormalizeAnswers(v) ==
    [i \in 1..Len(EnsureList(v)) |-> WithAssign(EnsureList(v)[i])]

\* The record analyze_image returns from its except clause (lines 264-270).
\* The error record without its assign key.
ErrorRecord_NoAssign(message) ==
    DictVal([k \in {"expr", "result"} |->
                IF k = "expr" THEN "'Error'" ELSE message])

ErrorRecord(message) ==
    DictVal([k \in {"expr", "result", "assign"} |->
                IF k = "expr" THEN "'Error'"
                ELSE IF k = "result" THEN message ELSE "False"])

\* route.py lines 41-46: isinstance(response, dict)
RECURSIVE OnlyDicts(_)
OnlyDicts(vals) ==
    IF vals = <<>> THEN <<>>
    ELSE IF Head(vals).t = "dict" THEN <<Head(vals)>> \o OnlyDicts(Tail(vals))
    ELSE OnlyDicts(Tail(vals))

\* ------------------------------------------------------------ the inputs
\* What data.image can be: empty; a data-URL prefix with nothing after the
\* comma (zero bytes to decode); a payload base64 rejects; bytes that are no
\* image; an image.
ImageInputs == {"empty", "url_empty", "bad_b64", "bad_img", "ok"}

\* str(e) of the exception generate_content raised, written as the repr of
\* that string.
FailureMessages == {"'quota exceeded'", "'deadline exceeded'"}

FreeTexts == SeqsUpTo(FreeTokens, MaxLen)

RECURSIVE CommaJoin(_)
CommaJoin(elems) ==
    IF Len(elems) <= 1 THEN elems
    ELSE <<Head(elems), ",">> \o CommaJoin(Tail(elems))

ElemTokens == {"N", "Db", "Dp", "Dj"}
ElemSeqs == SeqsUpTo(ElemTokens, MaxElems)
ListTexts == {<<"[">> \o CommaJoin(es) \o <<"]">> : es \in ElemSeqs}
TupleTexts == {CommaJoin(es) : es \in ElemSeqs \ {<<>>}}

\* A text inside a fenced block, with or without a language tag.
FenceOpenings ==
    {<<"F">>, <<"F", "n">>, <<"s", "F", "n">>}
    \cup {<<"F", tag, "n">> : tag \in LangTags}
    \cup {<<"F", "n", tag, "n">> : tag \in LangTags}
    \cup {<<"F", "s", "python", "s", "n">>}
FenceClosings == {<<"F">>, <<"n", "F">>, <<"n", "F", "n">>}
Wrap(opening, text, closing) == opening \o text \o closing
FencedTexts ==
    {Wrap(o, t, c) : o \in FenceOpenings, t \in ListTexts, c \in FenceClosings}

\* Prose around bracketed object literals.
Bracketed == {<<"[", d, "]">> : d \in DictTokens}
                 \cup {<<"[", "n", d, "s", "]">> : d \in {"Db", "Dx"}}
RescueTexts ==
    {pre \o b \o post : pre \in {<<"w">>, <<"w", "s">>}, b \in Bracketed,
                        post \in {<<>>, <<"w">>} \cup Bracketed}


Response(text, parts, candidates, content, repr) ==
    [text |-> text, parts |-> parts, candidates |-> candidates,
     content |-> content, repr |-> repr]

\* The texts the parts of a shaped response carry: one per level, and a
\* list literal cut in two.
T1 == <<"[", "Db", "]">>
T2 == <<"[", "Dp", "]">>
T3 == <<"[", "N", "]">>
T4 == <<"Db">>
TA == <<"[", "Db">>
TB == <<"]">>

\* A fenced block inside a fenced block, and two fenced blocks in a row.
InnerFenced ==
    {<<"F", "F">>}
    \cup {Wrap(o, t, <<"n", "F">>) : o \in {<<"F", "n">>, <<"F", "python", "n">>},
                                     t \in ListTexts}
NestedFencedTexts ==
    {Wrap(o, f, c) : o \in {<<"F">>, <<"F", "n">>}, f \in InnerFenced,
                     c \in {<<"F">>, <<"n", "F">>}}
SeveralFencedTexts ==
    {Wrap(<<"F">>, t, <<"F">>) \o sep \o Wrap(<<"F">>, u, <<"F">>) :
        t \in {T1, T2}, u \in {T1, T3}, sep \in {<<"n">>, <<"n", "w", "n">>}}

Texts ==
    FreeTexts \cup ListTexts \cup TupleTexts \cup FencedTexts \cup RescueTexts
    \cup NestedFencedTexts \cup SeveralFencedTexts

PartOpts == {Absent, Val(<<>>), Val(TA), Val(TB)}
PartsAttrs(n) == {Absent, Raises} \cup {Val(ps) : ps \in SeqsUpTo(PartOpts, n)}
ContentAttrs(n) == {Absent, Raises} \cup {Val(pa) : pa \in PartsAttrs(n)}
CandidateSeqs == SeqsUpTo(ContentAttrs(1), MaxCands)

\* A response with a direct text field only.
TextResponses == {Response(Val(t), Absent, Absent, Absent, ObjectRepr) : t \in Texts}

\* Every combination of what the five levels can give.
LevelResponses ==
    {Response(tx, pa, ca, co, rp) :
        tx \in {Absent, Raises, Val(<<>>), Val(T1)},
        pa \in {Absent, Raises, Val(<<>>), Val(<<Val(T2)>>)},
        ca \in {Absent, Raises, Val(<<Val(Val(<<Val(T3)>>))>>)},
        co \in {Absent, Raises, Val(Val(<<Val(T4)>>))},
        rp \in {<<>>, TypeRepr, ObjectRepr}}

\* One level in depth, the others absent or plain.
DeepResponses ==
    {Response(tx, pa, Absent, Absent, TypeRepr) :
        tx \in {Absent, Val(<<>>)}, pa \in PartsAttrs(MaxParts)}
    \cup {Response(tx, Absent, Val(cs), co, TypeRepr) :
        tx \in {Absent, Val(<<>>)}, cs \in CandidateSeqs,
        co \in {Absent, Val(Val(<<Val(T4)>>))}}
    \cup {Response(Absent, Absent, Absent, co, TypeRepr) :
        co \in ContentAttrs(MaxParts)}

Responses == TextResponses \cup LevelResponses \cup DeepResponses

\* The responses two requests in flight are given: a list and a tuple of
\* records, a fenced list, prose, prose around a bracketed record, and the
\* shaped responses that give no text.
ConcurrentTexts ==
    {T1, <<"[", "Db", ",", "Dp", "]">>, <<"Db", ",", "Dp">>,
     <<"F", "python", "n", "[", "Dp", "]", "n", "F">>, <<"w", "s", "w">>,
     <<"w", "[", "Dj", "]">>}
ConcurrentResponses ==
    {Response(Val(t), Absent, Absent, Absent, ObjectRepr) : t \in ConcurrentTexts}
    \cup {Response(Val(<<>>), Absent, Absent, Absent, TypeRepr),
          Response(Absent, Val(<<Val(T2)>>), Absent, Absent, TypeRepr),
          Response(Raises, Absent, Val(<<Val(Val(<<Val(T3)>>))>>), Absent,
                   ObjectRepr)}

\* -------------------------------------------------------------- the state
VARIABLES
    pc,                  \* where the request is in run / analyze_image
    data,                \* the request: what its image field holds
    response,            \* what generate_content returned
    response_text,       \* the extracted text
    cleaned_text,
    parsing_successful,
    answers,             \* the parsed value
    attempts,            \* the parse attempts made, as the code prints them
    error,               \* str(e) of the exception analyze_image caught
    returned,            \* what analyze_image returned to run
    http,                \* the endpoint's response
    analyze_calls,       \* calls of analyze_image by this request
    generate_calls,      \* calls of the model client by this request
    peer                 \* the frame of another request in flight, if any

vars == <<pc, data, response, response_text, cleaned_text, parsing_successful,
          answers, attempts, error, returned, http, analyze_calls,
          generate_calls, peer>>

NoResponse == Response(Absent, Absent, Absent, Absent, <<>>)
NoHttp == [message |-> "", data |-> <<>>, status |-> "none"]
Http(message, records, status) ==
    [message |-> message, data |-> records, status |-> status]

\* The frame of run() and of the analyze_image it calls: every name the
\* request reads or writes is a parameter or a local of the two functions.
Locals ==
    [pc |-> pc, data |-> data, response |-> response,
     response_text |-> response_text, cleaned_text |-> cleaned_text,
     parsing_successful |-> parsing_successful, answers |-> answers,
     attempts |-> attempts, error |-> error, returned |-> returned,
     http |-> http, analyze_calls |-> analyze_calls,
     generate_calls |-> generate_calls]

\* The frame of a request that has just arrived.
FreshRequest(d) ==
    [pc |-> "run", data |-> d, response |-> NoResponse,
     response_text |-> <<>>, cleaned_text |-> <<>>,
     parsing_successful |-> FALSE, answers |-> ListVal(<<>>),
     attempts |-> <<>>, error |-> "none", returned |-> <<>>,
     http |-> NoHttp, analyze_calls |-> 0, generate_calls |-> 0]

NoPeer == [FreshRequest([image |-> "empty"]) EXCEPT !.pc = "none"]

\* What the model answers: every response for a request on its own, the
\* responses of ConcurrentResponses when two requests are in flight.
ModelResponses == IF peer = NoPeer THEN Responses ELSE ConcurrentResponses

Init ==
    /\ pc = "run"
    /\ peer = NoPeer
    /\ data \in [image : ImageInputs]
    /\ response = NoResponse
    /\ response_text = <<>>
    /\ cleaned_text = <<>>
    /\ parsing_successful = FALSE
    /\ answers = ListVal(<<>>)
    /\ attempts = <<>>
    /\ error = "none"
    /\ returned = <<>>
    /\ http = NoHttp
    /\ analyze_calls = 0
    /\ generate_calls = 0

pipeline == <<response, response_text, cleaned_text, parsing_successful,
              answers, attempts>>

\* Bytes that are no image are passed on to analyze_image.
RunDecode_PassesBadImage ==
    /\ pc = "run"
    /\ IF data.image = "empty"
       THEN /\ http' = Http("No image data provided", <<>>, "error")
            /\ pc' = "done"
            /\ UNCHANGED analyze_calls
       ELSE IF data.image = "bad_b64"
       THEN /\ http' = Http("Invalid base64 image data", <<>>, "error")
            /\ pc' = "done"
            /\ UNCHANGED analyze_calls
       ELSE /\ pc' = "generate"
            /\ analyze_calls' = analyze_calls + 1
            /\ UNCHANGED http
    /\ UNCHANGED <<peer, data, pipeline, error, returned, generate_calls>>

\* route.py lines 15-36 and 51-56: validate and decode, then call
\* analyze_image.
RunDecode ==
    /\ pc = "run"
    /\ IF data.image = "empty"
       THEN /\ http' = Http("No image data provided", <<>>, "error")
            /\ pc' = "done"
            /\ UNCHANGED analyze_calls
       ELSE IF data.image = "bad_b64"
       THEN /\ http' = Http("Invalid base64 image data", <<>>, "error")
            /\ pc' = "done"
            /\ UNCHANGED analyze_calls
       ELSE IF data.image \in {"url_empty", "bad_img"}
       THEN /\ http' = Http("Error processing image", <<>>, "error")
            /\ pc' = "done"
            /\ UNCHANGED analyze_calls
       ELSE /\ pc' = "generate"
            /\ analyze_calls' = analyze_calls + 1
            /\ UNCHANGED http
    /\ UNCHANGED <<peer, data, pipeline, error, returned, generate_calls>>

\* utils.py lines 140-141 and 264-270: the call of the model, which returns
\* a response or raises.
GenerateContent ==
    /\ pc = "generate"
    /\ generate_calls' = generate_calls + 1
    /\ \/ \E r \in ModelResponses :
            /\ response' = r
            /\ pc' = "extract"
            /\ UNCHANGED <<error, returned>>
       \/ \E m \in FailureMessages :
            /\ error' = m
            /\ returned' = <<ErrorRecord(m)>>
            /\ pc' = "respond"
            /\ UNCHANGED response
    /\ UNCHANGED <<peer, data, response_text, cleaned_text, parsing_successful,
                   answers, attempts, http, analyze_calls>>

\* utils.py lines 146-157.
Extract ==
    /\ pc = "extract"
    /\ response_text' = ExtractText(response)
    /\ IF response_text' = <<>>
       THEN pc' = "respond" /\ returned' = <<>>
       ELSE pc' = "clean" /\ UNCHANGED returned
    /\ UNCHANGED <<peer, data, response, cleaned_text, parsing_successful, answers,
                   attempts, error, http, analyze_calls, generate_calls>>

\* utils.py lines 160-181.
CleanText ==
    /\ pc = "clean"
    /\ cleaned_text' = Clean(response_text)
    /\ pc' = "method1"
    /\ UNCHANGED <<peer, data, response, response_text, parsing_successful, answers,
                   attempts, error, returned, http, analyze_calls,
                   generate_calls>>

\* One parse attempt: the code prints which attempt it is, and on success
\* binds answers and sets parsing_successful.
TryParse(tag, result) ==
    /\ attempts' = Append(attempts, tag)
    /\ IF result.ok
       THEN answers' = result.val /\ parsing_successful' = TRUE
       ELSE UNCHANGED <<answers, parsing_successful>>

SkipParse == UNCHANGED <<answers, parsing_successful, attempts>>

rest == <<peer, data, response, response_text, cleaned_text, error, returned, http,
          analyze_calls, generate_calls>>

\* utils.py lines 183-189: json.loads(cleaned_text)
Method1 ==
    /\ pc = "method1"
    /\ TryParse("json_cleaned", JsonLoads(cleaned_text))
    /\ pc' = "method2"
    /\ UNCHANGED rest

\* utils.py lines 191-198: ast.literal_eval(cleaned_text)
Method2 ==
    /\ pc = "method2"
    /\ IF ~parsing_successful
       THEN TryParse("ast_cleaned", LiteralEval(cleaned_text))
       ELSE SkipParse
    /\ pc' = "method3"
    /\ UNCHANGED rest

\* The original text is parsed even after an earlier success.
Method3_Unguarded ==
    /\ pc = "method3"
    /\ TryParse("json_original", JsonLoads(response_text))
    /\ pc' = "method4"
    /\ UNCHANGED rest

\* utils.py lines 200-207: json.loads(response_text)
Method3 ==
    /\ pc = "method3"
    /\ IF ~parsing_successful
       THEN TryParse("json_original", JsonLoads(response_text))
       ELSE SkipParse
    /\ pc' = "method4"
    /\ UNCHANGED rest

\* utils.py lines 209-216: ast.literal_eval(response_text)
Method4 ==
    /\ pc = "method4"
    /\ IF ~parsing_successful
       THEN TryParse("ast_original", LiteralEval(response_text))
       ELSE SkipParse
    /\ pc' = "method5"
    /\ UNCHANGED rest

\* utils.py lines 227-238: json.loads(matches[0]), then ast.literal_eval of
\* it when that fails.
RescueParse(match) ==
    IF JsonLoads(match).ok THEN JsonLoads(match) ELSE LiteralEval(match)

RescueAttempts(match) ==
    IF JsonLoads(match).ok THEN <<"regex_json">> ELSE <<"regex_json", "regex_ast">>

\* utils.py lines 218-242: the regex rescue on response_text.
Method5 ==
    /\ pc = "method5"
    /\ IF parsing_successful THEN SkipParse
       ELSE IF HasMatch(response_text)
       THEN /\ attempts' = attempts \o <<"regex">>
                              \o RescueAttempts(FirstMatch(response_text))
            /\ IF RescueParse(FirstMatch(response_text)).ok
               THEN /\ answers' = RescueParse(FirstMatch(response_text)).val
                    /\ parsing_successful' = TRUE
               ELSE UNCHANGED <<answers, parsing_successful>>
       ELSE /\ attempts' = Append(attempts, "regex")
            /\ UNCHANGED <<answers, parsing_successful>>
    /\ pc' = "normalize"
    /\ UNCHANGED rest

\* A failed parse is raised, and so caught by the except clause.
Normalize_RaisesOnFailure ==
    /\ pc = "normalize"
    /\ IF ~parsing_successful
       THEN /\ error' = "'All parsing attempts failed'"
            /\ returned' = <<ErrorRecord(error')>>
            /\ UNCHANGED answers
       ELSE /\ answers' = ListVal(NormalizeAnswers(answers))
            /\ returned' = NormalizeAnswers(answers)
            /\ UNCHANGED error
    /\ pc' = "respond"
    /\ UNCHANGED <<peer, data, response, response_text, cleaned_text,
                   parsing_successful, attempts, http, analyze_calls,
                   generate_calls>>

\* After a failed parse the model is asked once more.
Normalize_Retries ==
    /\ pc = "normalize"
    /\ IF ~parsing_successful
       THEN /\ returned' = <<>>
            /\ pc' = IF generate_calls < 2 THEN "generate" ELSE "respond"
            /\ attempts' = <<>>
            /\ UNCHANGED answers
       ELSE /\ answers' = ListVal(NormalizeAnswers(answers))
            /\ returned' = NormalizeAnswers(answers)
            /\ pc' = "respond"
            /\ UNCHANGED attempts
    /\ UNCHANGED <<peer, data, response, response_text, cleaned_text,
                   parsing_successful, error, http, analyze_calls,
                   generate_calls>>

\* utils.py lines 244-262: nothing parsed gives [], else the normalised list.
Normalize ==
    /\ pc = "normalize"
    /\ IF ~parsing_successful
       THEN returned' = <<>> /\ UNCHANGED answers
       ELSE /\ answers' = ListVal(NormalizeAnswers(answers))
            /\ returned' = NormalizeAnswers(answers)
    /\ pc' = "respond"
    /\ UNCHANGED <<peer, data, response, response_text, cleaned_text,
                   parsing_successful, attempts, error, http, analyze_calls,
                   generate_calls>>

\* route.py lines 38-49: what run answers with the list analyze_image
\* returned.
Respond ==
    /\ pc = "respond"
    /\ IF returned = <<>>
       THEN http' = Http("No results found", <<>>, "warning")
       ELSE http' = Http("Image processed successfully", OnlyDicts(returned),
                         "success")
    /\ pc' = "done"
    /\ UNCHANGED <<peer, data, pipeline, error, returned, analyze_calls,
                   generate_calls>>

Next ==
    \/ RunDecode
    \/ GenerateContent
    \/ Extract
    \/ CleanText
    \/ Method1
    \/ Method2
    \/ Method3
    \/ Method4
    \/ Method5
    \/ Normalize
    \/ Respond

Spec == Init /\ [][Next]_vars

\* Two requests in flight. The handler of one runs up to any of its steps,
\* then the handler of the other goes on from where it stood: each finds its
\* own frame as it left it.
\* answers and parsing_successful are module-level names: the handler that
\* goes on finds what the other one left in them.
Switch_SharedAnswers ==
    /\ peer.pc \notin {"none", "done"}
    /\ peer' = Locals
    /\ pc' = peer.pc
    /\ data' = peer.data
    /\ response' = peer.response
    /\ response_text' = peer.response_text
    /\ cleaned_text' = peer.cleaned_text
    /\ attempts' = peer.attempts
    /\ error' = peer.error
    /\ returned' = peer.returned
    /\ http' = peer.http
    /\ analyze_calls' = peer.analyze_calls
    /\ generate_calls' = peer.generate_calls
    /\ UNCHANGED <<answers, parsing_successful>>

Switch ==
    /\ peer.pc \notin {"none", "done"}
    /\ peer' = Locals
    /\ pc' = peer.pc
    /\ data' = peer.data
    /\ response' = peer.response
    /\ response_text' = peer.response_text
    /\ cleaned_text' = peer.cleaned_text
    /\ parsing_successful' = peer.parsing_successful
    /\ answers' = peer.answers
    /\ attempts' = peer.attempts
    /\ error' = peer.error
    /\ returned' = peer.returned
    /\ http' = peer.http
    /\ analyze_calls' = peer.analyze_calls
    /\ generate_calls' = peer.generate_calls

InitConcurrent ==
    /\ pc = "run"
    /\ data \in [image : ImageInputs]
    /\ response = NoResponse
    /\ response_text = <<>>
    /\ cleaned_text = <<>>
    /\ parsing_successful = FALSE
    /\ answers = ListVal(<<>>)
    /\ attempts = <<>>
    /\ error = "none"
    /\ returned = <<>>
    /\ http = NoHttp
    /\ analyze_calls = 0
    /\ generate_calls = 0
    /\ peer \in {FreshRequest(d) : d \in [image : ImageInputs]}

NextConcurrent ==
    \/ Next
    \/ Switch

SpecConcurrent == InitConcurrent /\ [][NextConcurrent]_vars

TypeOK ==
    /\ pc \in {"run", "generate", "extract", "clean", "method1", "method2",
               "method3", "method4", "method5", "normalize", "respond", "done"}
    /\ parsing_successful \in BOOLEAN
    /\ http.status \in {"none", "success", "warning", "error"}
    /\ analyze_calls \in 0..1
    /\ generate_calls \in 0..1

\* ---------------------------------------------------------------- claims
Returned == pc \in {"respond", "done"}
Extracted == pc \notin {"run", "generate", "extract"} /\ error = "none"

\* The five strategies in the order the specification gives them.
StrategyOrder ==
    <<"json_cleaned", "ast_cleaned", "json_original", "ast_original", "regex">>

StrategyResult(k, cleaned, original) ==
    CASE k = 1 -> JsonLoads(cleaned)
      [] k = 2 -> LiteralEval(cleaned)
      [] k = 3 -> JsonLoads(original)
      [] k = 4 -> LiteralEval(original)
      [] k = 5 -> IF HasMatch(original) THEN RescueParse(FirstMatch(original))
                  ELSE Failure

\* The first strategy of StrategyOrder that succeeds, 0 when none does.
FirstSuccess(cleaned, original) ==
    IF \E k \in 1..5 : StrategyResult(k, cleaned, original).ok
    THEN CHOOSE k \in 1..5 :
             /\ StrategyResult(k, cleaned, original).ok
             /\ \A j \in 1..(k - 1) : ~StrategyResult(j, cleaned, original).ok
    ELSE 0

IsRescueStep(a) == a \in {"regex_json", "regex_ast"}
IsStrategy(a) == ~IsRescueStep(a)
StrategiesTried == SelectSeq(attempts, IsStrategy)

IsListOfMappings(v) ==
    v.t = "list" /\ \A i \in 1..Len(v.items) : v.items[i].t = "dict"

\* Clean, parse and normalise a text on its own.
SolveText(t) ==
    IF FirstSuccess(Clean(t), t) = 0 THEN <<>>
    ELSE NormalizeAnswers(StrategyResult(FirstSuccess(Clean(t), t), Clean(t), t).val)

RECURSIVE FirstText(_)
\* The text of the highest-precedence level that gives text.
FirstText(probes) ==
    IF probes = <<>> THEN <<>>
    ELSE IF Head(probes).k = "text" THEN Head(probes).v
    ELSE FirstText(Tail(probes))

\* C1: the sequence analyze_image returns contains only mapping-shaped
\* elements; every non-mapping element of the parsed sequence is dropped.
C1_ReturnedOnlyMappings ==
    Returned => \A i \in 1..Len(returned) : returned[i].t = "dict"

C3_StrategiesInOrder ==
    /\ Len(StrategiesTried) <= 5
    /\ StrategiesTried = SubSeq(StrategyOrder, 1, Len(StrategiesTried))
    /\ \A k \in 1..(Len(StrategiesTried) - 1) :
          ~StrategyResult(k, cleaned_text, response_text).ok
    /\ pc = "normalize" =>
          LET first == FirstSuccess(cleaned_text, response_text)
          IN  /\ Len(StrategiesTried) = IF first = 0 THEN 5 ELSE first
              /\ parsing_successful = (first # 0)
              /\ first # 0 =>
                    answers = StrategyResult(first, cleaned_text, response_text).val

C3_Witness ==
    /\ pc = "normalize"
    /\ parsing_successful
    /\ StrategiesTried = StrategyOrder
    /\ answers = ListVal(<<DictVal(DictOf("Dp"))>>)

\* C4: for a non-empty response text on which all five strategies fail,
\* analyze_image returns the empty sequence: no exception, no error record.
C4_UnparsableGivesEmpty ==
    (Returned /\ response_text # <<>>
        /\ FirstSuccess(Clean(response_text), response_text) = 0)
    => (returned = <<>> /\ error = "none")

C4_Witness ==
    /\ pc = "done"
    /\ response_text = <<"w", "s", "w">>
    /\ attempts = StrategyOrder
    /\ returned = <<>>
    /\ http.status = "warning"

\* C5: a text that parses as a list of mappings, wrapped in a fenced block
\* with or without a known language tag, gives the same records as the text
\* unwrapped.
C5_FenceTransparent ==
    (Returned /\ response_text # <<>> /\ "F" \in {response_text[i] : i \in 1..Len(response_text)})
    => \A o \in FenceOpenings, c \in FenceClosings, t \in ListTexts :
          (/\ response_text = Wrap(o, t, c)
           /\ \/ JsonLoads(t).ok /\ IsListOfMappings(JsonLoads(t).val)
              \/ LiteralEval(t).ok /\ IsListOfMappings(LiteralEval(t).val))
          => returned = SolveText(t)

C5_Witness ==
    /\ pc = "done"
    /\ response_text = <<"F", "python", "n", "[", "Db", ",", "Dp", "]", "n", "F">>
    /\ returned = <<DictVal([expr |-> "'x'", result |-> "2", assign |-> "False"]),
                    DictVal(DictOf("Dp"))>>

\* C6: when the call of the model raises, analyze_image returns exactly the
\* one record {expr: "Error", result: <message>, assign: false}, and the
\* endpoint answers with status "success" and that record as its data.
C6_FailureBecomesErrorRecord ==
    error # "none" =>
        /\ returned = <<DictVal([expr |-> "'Error'", result |-> error,
                                 assign |-> "False"])>>
        /\ pc = "done" => http.status = "success" /\ http.data = returned

C6_Witness ==
    /\ pc = "done"
    /\ generate_calls = 1
    /\ error = "'quota exceeded'"
    /\ http.status = "success"
    /\ Len(http.data) = 1

\* C7: for a request whose image decodes, the status is "warning" whenever
\* the data of the response is empty and "success" otherwise: there is no
\* "success" with empty data.
C7_WarningIffEmptyData ==
    (pc = "done" /\ data.image = "ok") =>
        /\ http.status \in {"warning", "success"}
        /\ http.status = "warning" <=> http.data = <<>>

\* C8: the extractor returns the text of the highest-precedence response
\* shape that gives non-empty text: the text field, the parts, the first
\* candidate with text, content.parts, the string representation.
C8_HighestPrecedenceText ==
    Extracted => response_text = FirstText(ProbeOrder(response))

\* C9: when probing one shape raises, the extractor goes on to the next
\* level, so the empty string is returned only if every level fails.
C9_EmptyOnlyIfEveryLevelFails ==
    (Extracted /\ response_text = <<>>)
    => \A i \in 1..Len(ProbeOrder(response)) : ProbeOrder(response)[i].k # "text"

\* C10: for a request whose image field is empty or fails base64 or image
\* decoding, the endpoint answers with status "error" and empty data, and
\* neither analyze_image nor the model client is ever invoked.
C10_BadImageNeverAnalyzed ==
    data.image # "ok" =>
        /\ analyze_calls = 0
        /\ generate_calls = 0
        /\ pc \in {"run", "done"}
        /\ pc = "done" => http.status = "error" /\ http.data = <<>>

C10_Witness ==
    /\ pc = "done"
    /\ data.image = "bad_img"
    /\ http.status = "error"
    /\ analyze_calls = 0

\* The value the parse chain produced for the texts of this request.
ParsedValue ==
    StrategyResult(FirstSuccess(cleaned_text, response_text), cleaned_text,
                   response_text).val

IsSequence(v) == v.t \in {"list", "tuple"}

\* C11: the parsed value is wrapped in a one-element sequence if and only if
\* it is not already a sequence: a bare mapping is returned as one record,
\* and a parsed list or tuple is returned element by element, each mapping
\* element carrying an assign key.
C11_WrapsOnlyNonSequences ==
    (Returned /\ error = "none" /\ parsing_successful) =>
        IF IsSequence(ParsedValue)
        THEN /\ Len(returned) = Len(ParsedValue.items)
             /\ \A i \in 1..Len(returned) :
                   /\ returned[i].t = ParsedValue.items[i].t
                   /\ returned[i].t = "dict" => "assign" \in DOMAIN returned[i].d
        ELSE /\ Len(returned) = 1
             /\ returned[1].t = ParsedValue.t
             /\ returned[1].t = "dict" => "assign" \in DOMAIN returned[1].d

\* C12: cleaning is idempotent: cleaning the cleaned text again gives the
\* cleaned text, for every response text, nested and repeated fences included.
C12_CleanIdempotent ==
    Extracted => Clean(Clean(response_text)) = Clean(response_text)

\* An opening bracket, one object literal, a closing bracket, with nothing
\* but whitespace in between.
IsRescueShape(sub) ==
    /\ Len(sub) >= 3
    /\ sub[1] = "[" /\ sub[Len(sub)] = "]"
    /\ \E j \in 2..(Len(sub) - 1) :
          /\ sub[j] \in DictTokens
          /\ \A i \in 2..(Len(sub) - 1) : i # j => sub[i] \in Whitespace

ShapePositions(t) ==
    {p \in (1..Len(t)) \X (1..Len(t)) : IsRescueShape(SubSeq(t, p[1], p[2]))}

LeftmostShape(t) ==
    LET p == CHOOSE p \in ShapePositions(t) :
                 \A q \in ShapePositions(t) : p[1] <= q[1]
    IN  SubSeq(t, p[1], p[2])

RescueSteps == SelectSeq(attempts, IsRescueStep)

EndedEmpty == Returned /\ analyze_calls = 1 /\ error = "none" /\ returned = <<>>

NoRepeats(seq) == \A i, j \in 1..Len(seq) : seq[i] = seq[j] => i = j

\* C14: in the execution of one request the model client is invoked at most
\* once and no parse attempt is made twice; once extraction or parsing has
\* failed the result stays empty, the model is not invoked again and no
\* further parse attempt is made.
C14_ModelInvokedAtMostOnce ==
    [][/\ generate_calls' <= 1
       /\ NoRepeats(attempts')
       /\ EndedEmpty => /\ generate_calls' = generate_calls
                        /\ attempts' = attempts
                        /\ returned' = <<>>
                        /\ pc' = "done"]_vars

C14_Witness ==
    /\ pc = "done"
    /\ generate_calls = 1
    /\ error = "none"
    /\ response \in LevelResponses
    /\ response.candidates = Raises
    /\ response_text = <<>>
    /\ attempts = <<>>
    /\ http.status = "warning"

\* What the endpoint answers a request handled on its own, from the image,
\* the model's response and the message of the failure of the model's call.
AloneResult(image, r, e) ==
    IF image = "empty" THEN Http("No image data provided", <<>>, "error")
    ELSE IF image = "bad_b64" THEN Http("Invalid base64 image data", <<>>, "error")
    ELSE IF image # "ok" THEN Http("Error processing image", <<>>, "error")
    ELSE IF e # "none"
    THEN Http("Image processed successfully", <<ErrorRecord(e)>>, "success")
    ELSE IF ExtractText(r) = <<>> \/ SolveText(ExtractText(r)) = <<>>
    THEN Http("No results found", <<>>, "warning")
    ELSE Http("Image processed successfully",
              OnlyDicts(SolveText(ExtractText(r))), "success")

\* C15: however the steps of two concurrent requests interleave, each
\* request is answered what it is answered when handled alone with the same
\* image and the same response of the model: no stage reads or writes state
\* of the other request.
C15_ConcurrentEqualsAlone ==
    /\ pc = "done" => http = AloneResult(data.image, response, error)
    /\ peer.pc = "done" =>
          peer.http = AloneResult(peer.data.image, peer.response, peer.error)

C15_Witness ==
    /\ pc = "done"
    /\ response_text = <<"w", "s", "w">>
    /\ http.status = "warning"
    /\ peer.pc = "normalize"
    /\ peer.parsing_successful
    /\ peer.response_text = <<"[", "Db", ",", "Dp", "]">>
    /\ peer.attempts = <<"json_cleaned", "ast_cleaned">>

====
